---- MODULE Spec2Model ----
(***************************************************************************)
(* A model of sbpy_ginga/astrometry.py: the CenteringRegion (a canvas      *)
(* shape, its masked data cutout and its peak marker) and the Astrometry   *)
(* plugin's event handlers that create, move and recenter it.              *)
(*                                                                         *)
(* Coordinates.  A float coordinate is a record [k, h]: k = "fin" and h    *)
(* the value in HALF pixels (h = 5 is 2.5), or k in {"nan","inf","ninf"}.  *)
(* Pixel indices and rounded bounds are plain integers, in pixels.         *)
(***************************************************************************)
EXTENDS Integers, Sequences, FiniteSets, TLC

VARIABLES
    image,              \* index (into Images) of the image shown by the viewer
    region,             \* Astrometry.region: NoRegion or a CenteringRegion
    photutils,          \* whether the optional photutils package is installed
    centering_method,   \* the text of the centering method combobox
    region_type,        \* Astrometry.region_type, the kind of shape to draw
    auto_levels,        \* the state of the auto levels checkbox
    center,             \* center_x, center_y, center_value, center_ra, center_dec
    marker,             \* history of the peak marker: "initial" (as constructed),
                        \* "accepted" / "rejected" (by the last set_center_point),
                        \* "moved" (accepted, and the shape has changed since)
    op,                 \* the last completed operation and its inputs
    outcome,            \* what it raised (err) and returned (ret)
    prev,               \* the region before the last operation (recorded for
                        \* the calls of SpecRegion and SpecCentroid only)
    shown,              \* the messages fv.show_error has shown in the last handler
    logged,             \* the warnings it has logged
    report,             \* AstrometricReport: _report (table) and what its
                        \* tree view shows (tree), each a dict in insertion order
    saved,              \* the file at the destination of save ("absent": none)
    applied,            \* the update and clear calls made on the report so far
    canvas              \* the composites (shape and marker) of CenteringRegions
                        \* on the plugin's canvas: how many there are (on), and
                        \* for the last handler how many there were when it
                        \* started (before), how many at most (most) and how
                        \* many it added (made); and how many drawn shapes
                        \* that belong to no region are on it (bare)

vars == <<image, region, photutils, centering_method, region_type, auto_levels,
          center, marker, op, outcome, prev, shown,
          logged, report, saved, applied, canvas>>

plugin_vars == <<photutils, centering_method, region_type, auto_levels, center,
                 shown, logged, report, saved, applied, canvas>>

-----------------------------------------------------------------------------
(* Bounds of the model *)

\* width and height of the images, in pixels
ImgW == 4
ImgH == 3

-----------------------------------------------------------------------------
(* Floats *)

Fin(h) == [k |-> "fin", h |-> h]
NaN    == [k |-> "nan", h |-> 0]
PosInf == [k |-> "inf", h |-> 0]
NegInf == [k |-> "ninf", h |-> 0]

\* np.isfinite
isfinite(f) == f.k = "fin"

\* f < n and f > n for a float f and an integer pixel n, as IEEE compares:
\* every comparison with NaN is false
FloatLt(f, n) ==
    CASE f.k = "fin"  -> f.h < 2 * n
      [] f.k = "ninf" -> TRUE
      [] OTHER        -> FALSE

FloatGt(f, n) ==
    CASE f.k = "fin" -> f.h > 2 * n
      [] f.k = "inf" -> TRUE
      [] OTHER       -> FALSE

\* int(round(v)) for the finite value of h half pixels: Python 3 rounds a
\* half to the even neighbour
round(h) ==
    IF h % 2 = 0 THEN h \div 2
    ELSE LET lo == (h - 1) \div 2
         IN  IF lo % 2 = 0 THEN lo ELSE lo + 1

Max(a, b) == IF a >= b THEN a ELSE b
Min(a, b) == IF a <= b THEN a ELSE b

-----------------------------------------------------------------------------
(* Shapes of the canvas: centre (x, y) and radii, in half pixels *)

Shape(kind, x, y, xr, yr) == [kind |-> kind, x |-> x, y |-> y, xr |-> xr, yr |-> yr]

\* shape.get_center_pt()
get_center_pt(shape) == <<Fin(shape.x), Fin(shape.y)>>

\* shape.get_llur(): the raw bounding box <<x1, y1, x2, y2>>, in half pixels
shape_get_llur(shape) ==
    <<shape.x - shape.xr, shape.y - shape.yr, shape.x + shape.xr, shape.y + shape.yr>>

\* shape.move_to_pt((x, y))
shape_move_to_pt(shape, x, y) == [shape EXCEPT !.x = x, !.y = y]

\* shape.contains_pt for the pixel (px, py): the box by its edges, the
\* circle by its radius (xr)
contains_pt(shape, px, py) ==
    IF shape.kind = "circle"
    THEN (2 * px - shape.x) * (2 * px - shape.x)
           + (2 * py - shape.y) * (2 * py - shape.y) <= shape.xr * shape.xr
    ELSE /\ shape.x - shape.xr <= 2 * px /\ 2 * px <= shape.x + shape.xr
         /\ shape.y - shape.yr <= 2 * py /\ 2 * py <= shape.y + shape.yr

-----------------------------------------------------------------------------
(* Images of the viewer, and the viewer's cutout service *)

\* image 1: one bright pixel at (2, 1) over a shallow ramp, with a sky solution
Pix1(px, py) == IF px = 2 /\ py = 1 THEN 9 ELSE (px + py) % 2

\* image 2: all zero (flat), without a sky solution
Pix2(px, py) == 0

Images ==
    << [wd |-> ImgW, ht |-> ImgH, flat |-> FALSE, wcs |-> TRUE],
       [wd |-> ImgW, ht |-> ImgH, flat |-> TRUE, wcs |-> FALSE] >>

\* the sample of image img at pixel (px, py)
get_data_xy(img, px, py) == IF Images[img].flat THEN Pix2(px, py) ELSE Pix1(px, py)

\* CenteringRegion.get_llur: the shape's bounding box rounded to pixels
get_llur(shape) ==
    LET b == shape_get_llur(shape)
    IN  <<round(b[1]), round(b[2]), round(b[3]), round(b[4])>>

\* image.cutout_shape(shape): the samples of the image in the shape's rounded
\* bounding box (both ends included) clipped to the image, row-major from the
\* lower-left pixel, masked where the pixel is not contained in the shape.
\* A box wholly off the image gives an array with no entries.
cutout_shape(img, shape) ==
    LET b    == get_llur(shape)
        x1   == Max(0, b[1])
        y1   == Max(0, b[2])
        x2   == Min(b[3], Images[img].wd - 1)
        y2   == Min(b[4], Images[img].ht - 1)
        rows == Max(0, y2 - y1 + 1)
        cols == Max(0, x2 - x1 + 1)
        idx  == (0 .. rows - 1) \X (0 .. cols - 1)
    IN  [rows |-> rows, cols |-> cols,
         val  |-> [i \in idx |-> get_data_xy(img, x1 + i[2], y1 + i[1])],
         mask |-> [i \in idx |-> ~contains_pt(shape, x1 + i[2], y1 + i[1])]]

\* data.size
size(data) == data.rows * data.cols

-----------------------------------------------------------------------------
(* CenteringRegion *)

NoRegion == [shape |-> Shape("none", 0, 0, 0, 0)]

Peak(x, y, alpha) == [x |-> x, y |-> y, alpha |-> alpha]

\* what a method call gives: the region after it, the exception it raised
\* ("none": it returned) and the floats it returned
Result(r, err, ret) == [r |-> r, err |-> err, ret |-> ret]

\* CenteringRegion.get_image_data
get_image_data(r, img) == cutout_shape(img, r.shape)

\* CenteringRegion.update_image_data
update_image_data(r, img) == [r EXCEPT !.data = get_image_data(r, img)]

\* CenteringRegion.__init__: the marker starts on the shape's centre, drawn
\* with the canvas default alpha of 1
CenteringRegion(shape, img) ==
    LET c == get_center_pt(shape)
    IN  update_image_data(
            [shape |-> shape, peak |-> Peak(c[1], c[2], 1),
             data |-> [rows |-> 0, cols |-> 0, val |-> <<>>, mask |-> <<>>]],
            img)

\* CenteringRegion.get_center
get_center(r) == get_center_pt(r.shape)

\* CenteringRegion.get_center_point
get_center_point(r) == <<r.peak.x, r.peak.y>>

\* mutant: the shape is moved and the cutout is not extracted again
set_center_stale(r, x, y, img) ==
    [r EXCEPT !.shape = shape_move_to_pt(r.shape, x, y)]

\* mutant: the marker is carried along to the new centre
set_center_carrying(r, x, y, img) ==
    update_image_data([r EXCEPT !.shape = shape_move_to_pt(r.shape, x, y),
                                !.peak = Peak(Fin(x), Fin(y), r.peak.alpha)], img)

\* CenteringRegion.set_center
set_center(r, x, y, img) ==
    update_image_data([r EXCEPT !.shape = shape_move_to_pt(r.shape, x, y)], img)

\* mutant: the lower bounds are not tested
invalid_coordinates_unbounded_below(shape, x, y) ==
    LET b == get_llur(shape)
    IN  \/ ~isfinite(x)
        \/ ~isfinite(y)
        \/ FloatGt(x, b[3])
        \/ FloatGt(y, b[4])

\* mutant: the finiteness tests are dropped
invalid_coordinates_unchecked_finite(shape, x, y) ==
    LET b == get_llur(shape)
    IN  \/ FloatLt(x, b[1])
        \/ FloatGt(x, b[3])
        \/ FloatLt(y, b[2])
        \/ FloatGt(y, b[4])

\* mutant: the upper bounds are exclusive
invalid_coordinates_exclusive(shape, x, y) ==
    LET b == get_llur(shape)
    IN  \/ FloatLt(x, b[1])
        \/ ~FloatLt(x, b[3])
        \/ FloatLt(y, b[2])
        \/ ~FloatLt(y, b[4])
        \/ ~isfinite(x)
        \/ ~isfinite(y)

\* the test both set_center_point and get_center_point_value make
invalid_coordinates(shape, x, y) ==
    LET b == get_llur(shape)
    IN  \/ FloatLt(x, b[1])
        \/ FloatGt(x, b[3])
        \/ FloatLt(y, b[2])
        \/ FloatGt(y, b[4])
        \/ ~isfinite(x)
        \/ ~isfinite(y)

\* mutant: a rejected marker is hidden where it is
set_center_point_in_place(r, x, y) ==
    IF invalid_coordinates(r.shape, x, y)
    THEN Result([r EXCEPT !.peak.alpha = 0], "RegionImageBoundsError", <<>>)
    ELSE Result([r EXCEPT !.peak = Peak(x, y, 1)], "none", <<>>)

\* mutant: a rejected marker stays visible
set_center_point_visible(r, x, y) ==
    IF invalid_coordinates(r.shape, x, y)
    THEN LET c == get_center(r)
         IN  Result([r EXCEPT !.peak = Peak(c[1], c[2], r.peak.alpha)],
                    "RegionImageBoundsError", <<>>)
    ELSE Result([r EXCEPT !.peak = Peak(x, y, 1)], "none", <<>>)

\* CenteringRegion.set_center_point
set_center_point(r, x, y) ==
    IF invalid_coordinates(r.shape, x, y)
    THEN LET c == get_center(r)
         IN  Result([r EXCEPT !.peak = Peak(c[1], c[2], 0)],
                    "RegionImageBoundsError", <<>>)
    ELSE Result([r EXCEPT !.peak = Peak(x, y, 1)], "none", <<>>)

\* float(self.data[row, col]): IndexError past the array, nan for a masked entry
sample(r, row, col) ==
    IF row >= r.data.rows \/ col >= r.data.cols
    THEN Result(r, "IndexError", <<>>)
    ELSE IF r.data.mask[<<row, col>>]
         THEN Result(r, "none", <<NaN>>)
         ELSE Result(r, "none", <<Fin(2 * r.data.val[<<row, col>>])>>)

\* mutant: the marker is not validated again when it is read
get_center_point_value_trusting(r) ==
    IF size(r.data) = 0
    THEN Result(r, "none", <<Fin(0)>>)
    ELSE LET b == get_llur(r.shape)
             p == get_center_point(r)
         IN  sample(r, Max(0, round(p[2].h - 2 * b[2])),
                       Max(0, round(p[1].h - 2 * b[1])))

\* CenteringRegion.get_center_point_value
get_center_point_value(r) ==
    IF size(r.data) = 0
    THEN Result(r, "none", <<Fin(0)>>)
    ELSE LET b == get_llur(r.shape)
             p == get_center_point(r)
         IN  IF invalid_coordinates(r.shape, p[1], p[2])
             THEN Result(r, "RegionImageBoundsError", <<>>)
             ELSE sample(r, round(p[2].h - 2 * b[2]), round(p[1].h - 2 * b[1]))

\* the order np.ma's argmax compares entries in: a masked entry is filled
\* with the lowest value of the type, so it is below every unmasked one
filled_le(data, i, j) ==
    \/ data.mask[i]
    \/ ~data.mask[j] /\ data.val[i] <= data.val[j]

\* the entry of a flat (row-major) index
unravel_index(k, data) == <<k \div data.cols, k % data.cols>>

\* the scan of the flat array from index k on, best being the index of the
\* greatest entry before k: a later entry replaces it only if it is greater
RECURSIVE first_greatest(_, _, _)
first_greatest(data, k, best) ==
    IF k >= size(data)
    THEN best
    ELSE first_greatest(data, k + 1,
            IF filled_le(data, unravel_index(k, data), unravel_index(best, data))
            THEN best ELSE k)

\* mutant scan: a later entry replaces the best also if it is equal
RECURSIVE last_greatest(_, _, _)
last_greatest(data, k, best) ==
    IF k >= size(data)
    THEN best
    ELSE last_greatest(data, k + 1,
            IF filled_le(data, unravel_index(best, data), unravel_index(k, data))
            THEN k ELSE best)

\* mutant: the last greatest entry
argmax_last(data) == last_greatest(data, 1, 0)

\* self.data.argmax(): the flat index of the first greatest entry
argmax(data) == first_greatest(data, 1, 0)

\* x += x1 for a float x and a pixel x1
FloatAdd(f, n) == IF isfinite(f) THEN Fin(f.h + 2 * n) ELSE f

\* the methods CenteringRegion.centroid knows
registered_methods == {"none", "peak", "2D Gaussian"}

\* mutant: the peak method moves the marker onto the peak it finds
centroid_moving(r, method, fit) ==
    LET b == get_llur(r.shape)
    IN  IF method = "peak" /\ size(r.data) # 0
        THEN LET i == unravel_index(argmax(r.data), r.data)
                 x == Fin(2 * (i[2] + b[1]))
                 y == Fin(2 * (i[1] + b[2]))
             IN  Result([r EXCEPT !.peak = Peak(x, y, 1)], "none", <<x, y>>)
        ELSE Result(r, "RuntimeError", <<>>)

\* mutant: the method "none" returns the centre of the shape
centroid_none_of_shape(r, method, fit) ==
    IF method = "none"
    THEN Result(r, "none", get_center(r))
    ELSE Result(r, "RuntimeError", <<>>)

\* mutant: a method that is not known is taken for "none"
centroid_lenient(r, method, fit) ==
    IF method \in {"peak", "2D Gaussian"}
    THEN Result(r, "ValueError", <<>>)
    ELSE Result(r, "none", get_center_point(r))

\* mutant: the peak is returned in the cutout's frame, without the corner
\* of the bounding box added
centroid_in_cutout_frame(r, method, fit) ==
    LET b == get_llur(r.shape)
    IN  CASE method = "none" -> Result(r, "none", get_center_point(r))
          [] method = "peak" ->
                IF size(r.data) = 0
                THEN Result(r, "ValueError", <<>>)
                ELSE LET i == unravel_index(argmax(r.data), r.data)
                     IN  Result(r, "none", <<Fin(2 * i[2]), Fin(2 * i[1])>>)
          [] method = "2D Gaussian" ->
                IF fit.err # "none"
                THEN Result(r, fit.err, <<>>)
                ELSE Result(r, "none", <<FloatAdd(fit.x, b[1]), FloatAdd(fit.y, b[2])>>)
          [] OTHER -> Result(r, "RuntimeError", <<>>)

\* CenteringRegion.centroid; fit is what photutils' centroid_2dg gives for
\* self.data: [err, x, y], (x, y) in the cutout's frame
centroid(r, method, fit) ==
    LET b == get_llur(r.shape)
    IN  CASE method = "none" -> Result(r, "none", get_center_point(r))
          [] method = "peak" ->
                IF size(r.data) = 0
                THEN Result(r, "ValueError", <<>>)
                ELSE LET i == unravel_index(argmax(r.data), r.data)
                     IN  Result(r, "none",
                                <<Fin(2 * (i[2] + b[1])), Fin(2 * (i[1] + b[2]))>>)
          [] method = "2D Gaussian" ->
                IF fit.err # "none"
                THEN Result(r, fit.err, <<>>)
                ELSE Result(r, "none", <<FloatAdd(fit.x, b[1]), FloatAdd(fit.y, b[2])>>)
          [] OTHER -> Result(r, "RuntimeError", <<>>)

\* what centroid_2dg(data) can give: it raises on an array with no entries;
\* otherwise the fitted centre, anywhere in or off the array, or NaN where
\* the fit fails
Fit(err, x, y) == [err |-> err, x |-> x, y |-> y]

centroid_2dg(data) ==
    IF size(data) = 0
    THEN {Fit("ValueError", NaN, NaN)}
    ELSE {Fit("none", NaN, NaN), Fit("ValueError", NaN, NaN)}
         \cup {Fit("none", Fin(1), Fin(1))}

-----------------------------------------------------------------------------
(* Inputs of the model *)

\* CenteringRegion.region_default_width // 2, in half pixels (7 // 2 pixels)
default_radius == 2 * (7 \div 2)

\* where the pointer clicks and the view is panned, in half pixels: on the
\* bright pixel (2.0, 1.0), and far off the image to the left
Clicks == {<<4, 2>>, <<0 - (2 * ImgW + 2), 2>>}

\* where a caller of the region's interface puts a shape: the clicks, and
\* (ImgW, 1.5), one pixel past the right edge
Pointers == Clicks \cup {<<2 * ImgW, 3>>}

\* the radii, in half pixels, of the boxes a user draws: a point-like
\* one, and one of the size of the default region
Radii == {0, default_radius}

\* the shapes drawn around the points of P
ShapesAt(P) ==
    {Shape("box", p[1], p[2], xr, xr) : p \in P, xr \in Radii}
      \cup {Shape("circle", p[1], p[2], 2, 2) : p \in P}

\* the shapes a caller makes regions of, and the shapes a user draws
DrawnShapes == ShapesAt(Pointers)
UserShapes == ShapesAt(Clicks)

\* the coordinates a caller passes to set_center_point
PeakInputs ==
    {<<Fin(p[1]), Fin(p[2])>> : p \in Pointers}
      \cup {<<Fin(2), Fin(0)>>, <<Fin(6), Fin(4)>>, <<Fin(7), Fin(2)>>,
            <<NaN, Fin(2)>>, <<Fin(4), NaN>>, <<PosInf, Fin(2)>>,
            <<Fin(4), PosInf>>, <<NegInf, Fin(2)>>, <<Fin(4), NegInf>>}

Methods == registered_methods \cup {"centroid", "Peak"}

Op(name, x, y, m) == [name |-> name, x |-> x, y |-> y, m |-> m]
Outcome(err, ret) == [err |-> err, ret |-> ret]

-----------------------------------------------------------------------------
(* The CenteringRegion under a caller that uses its methods in any order *)

NoCenter == [k |-> "unset", h |-> 0]

\* the marker's history after the shape moved or was edited
shape_changed(m) == IF m = "accepted" THEN "moved" ELSE m

\* AstrometricReport.__init__: no rows, and none shown
EmptyReport == [table |-> <<>>, tree |-> <<>>]

\* the canvas with n composites on it, as a handler finds it
Canvas(n) == [on |-> n, before |-> n, most |-> n, made |-> 0, bare |-> 0]

\* CenteringRegion.__init__ adds the new region's composite to the canvas
added(c) == [c EXCEPT !.on = @ + 1,
                      !.most = IF c.on + 1 > @ THEN c.on + 1 ELSE @,
                      !.made = @ + 1]

\* CenteringRegion.__del__ deletes the region's composite, if the canvas has it
removed(c) == IF c.on > 0 THEN [c EXCEPT !.on = @ - 1] ELSE c

\* the marker's history after set_center_point raised err
placed(err) == IF err = "none" THEN "accepted" ELSE "rejected"

RegionInit ==
    /\ image \in {1, 2}
    /\ \E shape \in DrawnShapes : region = CenteringRegion(shape, image)
    /\ photutils = TRUE
    /\ centering_method = "peak"
    /\ region_type = "box"
    /\ auto_levels = TRUE
    /\ center = [x |-> NoCenter, y |-> NoCenter, value |-> NoCenter,
                 ra |-> NoCenter, dec |-> NoCenter]
    /\ marker = "initial"
    /\ op = Op("CenteringRegion", Fin(0), Fin(0), "")
    /\ outcome = Outcome("none", <<>>)
    /\ prev = NoRegion
    /\ canvas = Canvas(1)
    /\ shown = <<>>
    /\ logged = <<>>
    /\ report = EmptyReport
    /\ saved = "absent"
    /\ applied = <<>>

\* the constructor, on a drawn shape
RegionCreate ==
    \E shape \in DrawnShapes :
        /\ region' = CenteringRegion(shape, image)
        /\ marker' = "initial"
        /\ op' = Op("CenteringRegion", Fin(shape.x), Fin(shape.y), "")
        /\ outcome' = Outcome("none", <<>>)
        /\ prev' = region
        /\ UNCHANGED <<image, plugin_vars>>

RegionSetCenter ==
    \E p \in Pointers :
        /\ region' = set_center(region, p[1], p[2], image)
        /\ marker' = shape_changed(marker)
        /\ op' = Op("set_center", Fin(p[1]), Fin(p[2]), "")
        /\ outcome' = Outcome("none", <<>>)
        /\ prev' = region
        /\ UNCHANGED <<image, plugin_vars>>

RegionSetCenterPoint ==
    \E p \in PeakInputs :
        LET res == set_center_point(region, p[1], p[2])
        IN  /\ region' = res.r
            /\ marker' = placed(res.err)
            /\ op' = Op("set_center_point", p[1], p[2], "")
            /\ outcome' = Outcome(res.err, res.ret)
            /\ prev' = region
            /\ UNCHANGED <<image, plugin_vars>>

RegionGetCenterPointValue ==
    LET res == get_center_point_value(region)
    IN  /\ region' = res.r
        /\ op' = Op("get_center_point_value", Fin(0), Fin(0), "")
        /\ outcome' = Outcome(res.err, res.ret)
        /\ prev' = region
        /\ UNCHANGED <<image, plugin_vars, marker>>

RegionCentroid ==
    \E m \in Methods :
    \E fit \in (IF m = "2D Gaussian" THEN centroid_2dg(region.data)
                ELSE {Fit("none", NaN, NaN)}) :
        LET res == centroid(region, m, fit)
        IN  /\ region' = res.r
            /\ op' = Op("centroid", Fin(0), Fin(0), m)
            /\ outcome' = Outcome(res.err, res.ret)
            /\ prev' = region
            /\ UNCHANGED <<image, plugin_vars, marker>>

RegionNext ==
    \/ RegionCreate
    \/ RegionSetCenter
    \/ RegionSetCenterPoint
    \/ RegionGetCenterPointValue
    \/ RegionCentroid

SpecRegion == RegionInit /\ [][RegionNext]_vars

-----------------------------------------------------------------------------
(* AstrometricReport.  A dict is a sequence of items [key, row] with         *)
(* distinct keys, in the order in which the keys were first inserted.         *)

Item(key, row) == [key |-> key, row |-> row]

\* the keys of dict d
keys(d) == {d[i].key : i \in 1 .. Len(d)}

\* d[key] = row: the row of a key that is there is replaced where it is, a
\* new key goes to the end
setitem(d, key, row) ==
    IF key \in keys(d)
    THEN [i \in 1 .. Len(d) |-> IF d[i].key = key THEN Item(key, row) ELSE d[i]]
    ELSE Append(d, Item(key, row))

\* mutant: a row that is replaced moves to the end
dict_update_moving(d, results) ==
    LET kept == SelectSeq(d, LAMBDA it : it.key \notin keys(results))
    IN  kept \o results

\* dict.update(results)
RECURSIVE dict_update(_, _)
dict_update(d, results) ==
    IF results = <<>>
    THEN d
    ELSE dict_update(setitem(d, Head(results).key, Head(results).row), Tail(results))

\* list(d.values())
values(d) == [i \in 1 .. Len(d) |-> d[i].row]

\* AstrometricReport.clear
report_clear(rep) == [table |-> <<>>, tree |-> <<>>]

\* mutant: the tree view is not refreshed
report_update_unshown(rep, results) ==
    [rep EXCEPT !.table = dict_update(rep.table, results)]

\* AstrometricReport.update: the tree view is set to the whole table
report_update(rep, results) ==
    LET table == dict_update(rep.table, results)
    IN  [table |-> table, tree |-> table]

\* AstrometricReport.save: the rows, the units of the columns ra and dec (a
\* table made of no rows has no columns, and tab["ra"] raises KeyError), and
\* the write, which replaces the file if it can write
report_save(rep, file, writable) ==
    IF Len(rep.table) = 0
    THEN Result(file, "KeyError", <<>>)
    ELSE IF ~writable
         THEN Result(file, "OSError", <<>>)
         ELSE Result(values(rep.table), "none", <<>>)

\* the keys and rows of the calls of SpecReport
ReportKeys == {"a", "b"}
ReportRows == {1, 2}

\* what update is called with: one row, or rows for both keys
Results ==
    {<<Item(k, v)>> : k \in ReportKeys, v \in ReportRows}
        \cup {<<Item("b", 2), Item("a", 2)>>}

\* how many update and clear calls a report gets
MaxOps == 3

ReportInit ==
    /\ image = 1
    /\ region = NoRegion
    /\ photutils = TRUE
    /\ centering_method = "peak"
    /\ region_type = "box"
    /\ auto_levels = TRUE
    /\ center = [x |-> NoCenter, y |-> NoCenter, value |-> NoCenter,
                 ra |-> NoCenter, dec |-> NoCenter]
    /\ marker = "initial"
    /\ op = Op("AstrometricReport", Fin(0), Fin(0), "")
    /\ outcome = Outcome("none", <<>>)
    /\ prev = NoRegion
    /\ canvas = Canvas(0)
    /\ shown = <<>>
    /\ logged = <<>>
    /\ report = EmptyReport
    /\ saved = "absent"
    /\ applied = <<>>

report_vars == <<image, region, photutils, centering_method, region_type,
                 auto_levels, center, marker, prev, canvas, shown, logged>>

\* report.update(results)
ReportUpdate ==
    \E results \in Results :
        /\ Len(applied) < MaxOps
        /\ report' = report_update(report, results)
        /\ applied' = Append(applied, results)
        /\ op' = Op("update", Fin(0), Fin(0), "")
        /\ outcome' = Outcome("none", <<>>)
        /\ UNCHANGED <<report_vars, saved>>

\* report.clear()
ReportClear ==
    /\ Len(applied) < MaxOps
    /\ report' = report_clear(report)
    /\ applied' = Append(applied, <<>>)
    /\ op' = Op("clear", Fin(0), Fin(0), "")
    /\ outcome' = Outcome("none", <<>>)
    /\ UNCHANGED <<report_vars, saved>>

\* report.save(filename), to a destination that can or cannot be written
ReportSave ==
    \E writable \in BOOLEAN :
        LET res == report_save(report, saved, writable)
        IN  /\ saved' = res.r
            /\ op' = Op("save", Fin(0), Fin(0),
                        IF writable THEN "writable" ELSE "unwritable")
            /\ outcome' = Outcome(res.err, <<>>)
            /\ UNCHANGED <<report_vars, report, applied>>

ReportNext == ReportUpdate \/ ReportClear \/ ReportSave

SpecReport == ReportInit /\ [][ReportNext]_vars

-----------------------------------------------------------------------------
(* The Astrometry plugin.  A handler is an operator on the record st of    *)
(* what it can change: region, center, marker (the history) and err, the   *)
(* exception that is propagating ("none": the handler is still running).   *)

\* Astrometry.region_types, as far as the model draws them
region_types == {"box", "circle"}

\* a line is no region type
Lines == {Shape("line", p[1], p[2], 2, 2) : p \in Clicks}

\* Astrometry.centering_methods, set up in __init__
centering_methods(has_photutils) ==
    IF has_photutils THEN {"none", "peak", "2D Gaussian"} ELSE {"none", "peak"}

\* mutant: the stored centering method is taken as it is
sync_preferences_unchecked(pref, has_photutils) == pref

\* Astrometry.sync_preferences: the stored centering method, if it is offered
sync_preferences(pref, has_photutils) ==
    IF pref \in centering_methods(has_photutils)
    THEN pref
    ELSE IF "2D Gaussian" \in centering_methods(has_photutils)
         THEN "2D Gaussian" ELSE "peak"

\* what the settings file can hold for centering_method
Preferences == {"None", "none", "peak", "2D Gaussian", "centroid"}

None == [k |-> "None", h |-> 0]
Sky(f) == [k |-> "sky", h |-> f.h]

\* mutant: half the default width rounded up
at_location_ceil(x, y, img) ==
    CenteringRegion(Shape("box", x, y, default_radius + 2, default_radius + 2), img)

\* CenteringRegion.at_location: a box of the default size
at_location(x, y, img) ==
    CenteringRegion(Shape("box", x, y, default_radius, default_radius), img)

\* Astrometry.set_cut_levels: np.nanmin raises on an array without entries
set_cut_levels(st, img, al) ==
    IF ~al \/ st.region = NoRegion
    THEN st
    ELSE IF size(get_image_data(st.region, img)) = 0
         THEN [st EXCEPT !.err = "ValueError"]
         ELSE st

\* Astrometry.move_region
move_region(st, x, y, img, al) ==
    IF st.region = NoRegion
    THEN st
    ELSE set_cut_levels(
            [st EXCEPT !.region = update_image_data(set_center(@, x, y, img), img),
                       !.marker = shape_changed(@)],
            img, al)

\* vip.get_image_at_pt and image.pixtoradec: there are sky coordinates for a
\* point on an image that has a sky solution
pixtoradec_ok(img, x, y) ==
    /\ Images[img].wcs
    /\ 0 - 1 <= x.h /\ x.h <= 2 * Images[img].wd - 1
    /\ 0 - 1 <= y.h /\ y.h <= 2 * Images[img].ht - 1

\* mutant: after a rejection the center fields are left as they are
move_region_peak_keeping_fields(st, x, y, img) ==
    LET placing == set_center_point(st.region, x, y)
    IN  IF placing.err = "RegionImageBoundsError"
        THEN [st EXCEPT !.region = placing.r,
                        !.marker = placed(placing.err),
                        !.shown = Append(@, placing.err)]
        ELSE LET reading == get_center_point_value(placing.r)
             IN  IF reading.err # "none"
                 THEN [st EXCEPT !.region = placing.r,
                                 !.marker = placed(placing.err),
                                 !.center.x = x, !.center.y = y,
                                 !.err = reading.err]
                 ELSE [st EXCEPT
                         !.region = placing.r,
                         !.marker = placed(placing.err),
                         !.center =
                             [x |-> x, y |-> y, value |-> reading.ret[1],
                              ra  |-> IF pixtoradec_ok(img, x, y) THEN Sky(x) ELSE None,
                              dec |-> IF pixtoradec_ok(img, x, y) THEN Sky(y) ELSE None]]

\* mutant: the rejection is not caught
move_region_peak_uncaught(st, x, y, img) ==
    LET placing == set_center_point(st.region, x, y)
    IN  IF placing.err = "RegionImageBoundsError"
        THEN [st EXCEPT !.region = placing.r,
                        !.marker = placed(placing.err),
                        !.err = placing.err]
        ELSE [st EXCEPT !.region = placing.r,
                        !.marker = placed(placing.err),
                        !.center.x = x, !.center.y = y]

\* mutant: a failure of the sky transform is not caught
move_region_peak_unguarded(st, x, y, img) ==
    LET placing == set_center_point(st.region, x, y)
    IN  IF placing.err = "RegionImageBoundsError"
        THEN [st EXCEPT !.region = placing.r,
                        !.marker = placed(placing.err),
                        !.center = [x |-> None, y |-> None, value |-> None,
                                    ra |-> None, dec |-> None],
                        !.shown = Append(@, placing.err)]
        ELSE LET reading == get_center_point_value(placing.r)
             IN  IF reading.err # "none"
                 THEN [st EXCEPT !.region = placing.r,
                                 !.marker = placed(placing.err),
                                 !.center.x = x, !.center.y = y,
                                 !.err = reading.err]
                 ELSE IF pixtoradec_ok(img, x, y)
                      THEN [st EXCEPT
                              !.region = placing.r,
                              !.marker = placed(placing.err),
                              !.center = [x |-> x, y |-> y, value |-> reading.ret[1],
                                          ra |-> Sky(x), dec |-> Sky(y)]]
                      ELSE [st EXCEPT
                              !.region = placing.r,
                              !.marker = placed(placing.err),
                              !.center.x = x, !.center.y = y,
                              !.center.value = reading.ret[1],
                              !.err = "Exception"]

\* Astrometry.move_region_peak
move_region_peak(st, x, y, img) ==
    LET placing == set_center_point(st.region, x, y)
    IN  IF placing.err = "RegionImageBoundsError"
        THEN [st EXCEPT !.region = placing.r,
                        !.marker = placed(placing.err),
                        !.center = [x |-> None, y |-> None, value |-> None,
                                    ra |-> None, dec |-> None],
                        !.shown = Append(@, placing.err)]
        ELSE LET reading == get_center_point_value(placing.r)
             IN  IF reading.err # "none"
                 THEN [st EXCEPT !.region = placing.r,
                                 !.marker = placed(placing.err),
                                 !.center.x = x, !.center.y = y,
                                 !.err = reading.err]
                 ELSE [st EXCEPT
                         !.region = placing.r,
                         !.marker = placed(placing.err),
                         !.center =
                             [x |-> x, y |-> y, value |-> reading.ret[1],
                              ra  |-> IF pixtoradec_ok(img, x, y) THEN Sky(x) ELSE None,
                              dec |-> IF pixtoradec_ok(img, x, y) THEN Sky(y) ELSE None],
                         !.logged = IF pixtoradec_ok(img, x, y)
                                    THEN @
                                    ELSE Append(@, "Couldn't calculate sky coordinates")]

\* Astrometry.recenter_region; fit is what centroid_2dg gives if it is called
recenter_region(st, method, fit, img) ==
    LET found == centroid(st.region, method, fit)
    IN  IF found.err # "none"
        THEN [st EXCEPT !.err = found.err]
        ELSE move_region_peak(st, found.ret[1], found.ret[2], img)

\* the module's name centroid_2dg (lines 33-36) applied to data: the function
\* of photutils, or None where the import failed, and calling None raises
imported_centroid_2dg(data) ==
    IF photutils THEN centroid_2dg(data) ELSE {Fit("TypeError", NaN, NaN)}

\* the fits centroid_2dg can give when recenter_region runs on st
Fits(st, method) ==
    IF method = "2D Gaussian" /\ st.region # NoRegion
    THEN imported_centroid_2dg(st.region.data)
    ELSE {Fit("none", NaN, NaN)}

\* mutant: the region is dropped and its composite stays on the canvas
discard_leaving_composite(st) == [st EXCEPT !.region = NoRegion]

\* "del self.region" and "self.region = None" on a region: the last reference
\* to the CenteringRegion goes, and __del__ runs
discard(st) ==
    IF st.region = NoRegion
    THEN st
    ELSE [st EXCEPT !.region = NoRegion, !.canvas = removed(@)]

\* the rest of a handler, unless an exception is propagating
running(st) == st.err = "none"

\* the state a handler starts in, and the variables it leaves
Entry == [region |-> region, center |-> center, marker |-> marker, err |-> "none",
          canvas |-> [Canvas(canvas.on) EXCEPT !.bare = canvas.bare], shown |-> <<>>, logged |-> <<>>,
          report |-> report, ret |-> <<>>]

Leave(st, o) ==
    /\ region' = st.region
    /\ center' = st.center
    /\ marker' = st.marker
    /\ outcome' = Outcome(st.err, IF running(st) THEN st.ret ELSE <<>>)
    /\ op' = o
    /\ prev' = NoRegion
    /\ canvas' = st.canvas
    /\ shown' = st.shown
    /\ logged' = st.logged
    /\ report' = st.report
    /\ UNCHANGED <<saved, applied>>

Init ==
    /\ image = 1
    /\ region = NoRegion
    /\ photutils = TRUE
    /\ \E pref \in Preferences : centering_method = sync_preferences(pref, photutils)
    /\ region_type = "box"    \* the default of sync_preferences; the selector is left alone
    /\ auto_levels = TRUE
    /\ center = [x |-> NoCenter, y |-> NoCenter, value |-> NoCenter,
                 ra |-> NoCenter, dec |-> NoCenter]
    /\ marker = "initial"
    /\ op = Op("__init__", Fin(0), Fin(0), "")
    /\ outcome = Outcome("none", <<>>)
    /\ prev = NoRegion
    /\ canvas = Canvas(0)
    /\ shown = <<>>
    /\ logged = <<>>
    /\ report = EmptyReport
    /\ saved = "absent"
    /\ applied = <<>>

\* Astrometry.button_down, which returns True
do_button_down(st, x, y, img) ==
    IF st.region = NoRegion
    THEN [st EXCEPT !.region = at_location(x, y, img),
                    !.marker = "initial",
                    !.canvas = added(@),
                    !.ret = <<TRUE>>]
    ELSE [st EXCEPT !.region = set_center(@, x, y, img),
                    !.marker = shape_changed(@),
                    !.ret = <<TRUE>>]

button_down ==
    \E p \in Clicks :
        /\ Leave(do_button_down(Entry, p[1], p[2], image),
                 Op("button_down", Fin(0), Fin(0), ""))
        /\ UNCHANGED <<image, photutils, centering_method, region_type, auto_levels>>

\* mutant: a drag recenters the marker on the shape
do_button_drag_recentering(st, x, y, img) ==
    IF st.region = NoRegion
    THEN [st EXCEPT !.ret = <<FALSE>>]
    ELSE [st EXCEPT !.region = CenteringRegion(set_center(@, x, y, img).shape, img),
                    !.marker = "initial",
                    !.ret = <<TRUE>>]

\* Astrometry.button_drag, which returns False if there is no region
do_button_drag(st, x, y, img) ==
    IF st.region = NoRegion
    THEN [st EXCEPT !.ret = <<FALSE>>]
    ELSE [st EXCEPT !.region = set_center(@, x, y, img),
                    !.marker = shape_changed(@),
                    !.ret = <<TRUE>>]

button_drag ==
    \E p \in Clicks :
        /\ Leave(do_button_drag(Entry, p[1], p[2], image),
                 Op("button_drag", Fin(0), Fin(0), ""))
        /\ UNCHANGED <<image, photutils, centering_method, region_type, auto_levels>>

\* mutant: the region is recentered where it was, and then moved
do_button_up_recentering_first(st, x, y, method, fit, img, al) ==
    IF st.region = NoRegion
    THEN [st EXCEPT !.ret = <<FALSE>>]
    ELSE LET found == recenter_region(st, method, fit, img)
         IN  IF running(found)
             THEN [move_region(found, x, y, img, al) EXCEPT !.ret = <<TRUE>>]
             ELSE found

\* Astrometry.button_up, which returns False if there is no region; fit is
\* what centroid_2dg gives on the cutout of the moved region
do_button_up(st, x, y, method, fit, img, al) ==
    IF st.region = NoRegion
    THEN [st EXCEPT !.ret = <<FALSE>>]
    ELSE LET moved == move_region(st, x, y, img, al)
         IN  IF running(moved)
             THEN [recenter_region(moved, method, fit, img) EXCEPT !.ret = <<TRUE>>]
             ELSE moved

button_up ==
    \E p \in Clicks :
        \E fit \in Fits(move_region(Entry, p[1], p[2], image, auto_levels),
                        centering_method) :
            /\ Leave(do_button_up(Entry, p[1], p[2], centering_method, fit, image,
                                  auto_levels),
                     Op("button_up", Fin(0), Fin(0), ""))
            /\ UNCHANGED <<image, photutils, centering_method, region_type,
                           auto_levels>>

\* canvas.add(shape): a shape that belongs to no region is on the canvas
drawn(st) == [st EXCEPT !.canvas.bare = @ + 1]

\* canvas.delete_object_by_tag(tag) of such a shape
deleted(st) == [st EXCEPT !.canvas.bare = IF @ > 0 THEN @ - 1 ELSE @]

\* mutant: the new region is made while the one it replaces is still there
draw_callback_keeping(st, shape, method, fit, img, al) ==
    IF shape.kind \notin region_types
    THEN deleted(st)
    ELSE LET made  == [deleted(st) EXCEPT
                           !.region = CenteringRegion(shape, img),
                           !.marker = "initial",
                           !.canvas = IF st.region = NoRegion
                                      THEN added(@)
                                      ELSE removed(added(@))]
             level == set_cut_levels(made, img, al)
         IN  IF running(level)
             THEN recenter_region(level, method, fit, img)
             ELSE level

\* mutant: a shape that is no region type is not told from one that is
draw_callback_of_any_kind(st, shape, method, fit, img, al) ==
    LET made  == [discard(deleted(st)) EXCEPT
                      !.region = CenteringRegion(shape, img),
                      !.marker = "initial",
                      !.canvas = added(@)]
        level == set_cut_levels(made, img, al)
    IN  IF running(level)
        THEN recenter_region(level, method, fit, img)
        ELSE level

\* Astrometry.draw_callback on a shape that has been put on the canvas: it is
\* taken off, and if it is of a region type the region there is is dropped,
\* a new one is made on the shape, and that is recentered
draw_callback(st, shape, method, fit, img, al) ==
    IF shape.kind \notin region_types
    THEN deleted(st)
    ELSE LET made  == [discard(deleted(st)) EXCEPT
                           !.region = CenteringRegion(shape, img),
                           !.marker = "initial",
                           !.canvas = added(@)]
             level == set_cut_levels(made, img, al)
         IN  IF running(level)
             THEN recenter_region(level, method, fit, img)
             ELSE level

\* the draw-event of the canvas: the user has drawn a shape
draw_event ==
    \E shape \in UserShapes \cup Lines :
        LET k == shape.kind
        IN  \E fit \in (IF k \in region_types /\ centering_method = "2D Gaussian"
                        THEN imported_centroid_2dg(cutout_shape(image, shape))
                        ELSE {Fit("none", NaN, NaN)}) :
                /\ Leave(draw_callback(drawn(Entry), shape, centering_method, fit,
                                       image, auto_levels),
                         Op("draw_callback", Fin(0), Fin(0), ""))
                /\ UNCHANGED <<image, photutils, centering_method, region_type,
                               auto_levels>>

\* use_view_center_callback: the region is dropped, a shape of region_type is
\* made at the pan position with box arguments (x, y, xradius, yradius), which
\* Circle(x, y, radius, color, ...) does not take, and draw_callback runs on it
use_view_center_callback ==
    \E p \in Clicks :
        LET shape   == Shape(region_type, p[1], p[2], default_radius, default_radius)
            dropped == discard(Entry)
        IN  \E fit \in (IF centering_method = "2D Gaussian"
                        THEN imported_centroid_2dg(cutout_shape(image, shape))
                        ELSE {Fit("none", NaN, NaN)}) :
                /\ Leave(IF region_type = "box"
                         THEN draw_callback(drawn(dropped), shape, centering_method,
                                            fit, image, auto_levels)
                         ELSE [dropped EXCEPT !.err = "TypeError"],
                         Op("use_view_center", Fin(0), Fin(0), ""))
                /\ UNCHANGED <<image, photutils, centering_method, region_type,
                               auto_levels>>

\* Astrometry.edit_callback on the region's shape
edit_callback(st, method, fit, img, al) ==
    LET level == set_cut_levels([st EXCEPT !.region = update_image_data(@, img)],
                                img, al)
    IN  IF running(level)
        THEN recenter_region(level, method, fit, img)
        ELSE level

\* the edit-event of the canvas: the user has moved or resized the region's
\* shape (with no region there is no such shape, and an edit of anything else
\* changes nothing)
edit_event ==
    \E shape \in {d \in UserShapes : d.kind = region.shape.kind} \cup {NoRegion.shape} :
        LET edited == [Entry EXCEPT !.region.shape = shape,
                                    !.marker = shape_changed(@)]
        IN  \E fit \in (IF region # NoRegion /\ centering_method = "2D Gaussian"
                        THEN imported_centroid_2dg(cutout_shape(image, edited.region.shape))
                        ELSE {Fit("none", NaN, NaN)}) :
                /\ (region = NoRegion) = (shape = NoRegion.shape)
                /\ Leave(IF region = NoRegion
                         THEN Entry
                         ELSE edit_callback(edited, centering_method, fit, image,
                                            auto_levels),
                         Op("edit_callback", Fin(0), Fin(0), ""))
                /\ UNCHANGED <<image, photutils, centering_method, region_type,
                               auto_levels>>

\* centroid_callback
centroid_callback ==
    \E fit \in Fits(Entry, centering_method) :
        /\ Leave(IF region = NoRegion
                 THEN Entry
                 ELSE recenter_region(Entry, centering_method, fit, image),
                 Op("centroid_callback", Fin(0), Fin(0), ""))
        /\ UNCHANGED <<image, photutils, centering_method, region_type, auto_levels>>

\* mutant: the region does not outlive the image it was made on
redo_dropping(st, method, fit, img, al) == discard(st)

\* Astrometry.redo on st, for the image img now in the viewer
redo(st, method, fit, img, al) ==
    IF st.region = NoRegion
    THEN [st EXCEPT !.err = "AttributeError"]
    ELSE LET found == recenter_region([st EXCEPT !.region = update_image_data(@, img)],
                                      method, fit, img)
         IN  IF running(found) THEN set_cut_levels(found, img, al) ELSE found

\* a new image is loaded into the channel, and the viewer calls redo
new_image ==
    \E img \in {image + 1} \cap (1 .. Len(Images)) :
        \E fit \in (IF region # NoRegion /\ centering_method = "2D Gaussian"
                    THEN imported_centroid_2dg(cutout_shape(img, region.shape))
                    ELSE {Fit("none", NaN, NaN)}) :
            /\ image' = img
            /\ Leave(redo(Entry, centering_method, fit, img, auto_levels),
                     Op("redo", Fin(0), Fin(0), ""))
            /\ UNCHANGED <<photutils, centering_method, region_type, auto_levels>>

\* change_centering_method: the user picks one of the offered methods
change_centering_method ==
    \E m \in centering_methods(photutils) :
        /\ centering_method' = m
        /\ Leave(Entry, Op("change_centering_method", Fin(0), Fin(0), ""))
        /\ UNCHANGED <<image, photutils, region_type, auto_levels>>

\* activate_auto_levels: the checkbox is toggled, and set_cut_levels runs
activate_auto_levels ==
    /\ auto_levels' = ~auto_levels
    /\ Leave(set_cut_levels(Entry, image, ~auto_levels),
             Op("activate_auto_levels", Fin(0), Fin(0), ""))
    /\ UNCHANGED <<image, photutils, centering_method, region_type>>

Next ==
    \/ button_down
    \/ button_drag
    \/ button_up
    \/ draw_event
    \/ use_view_center_callback
    \/ edit_event
    \/ centroid_callback
    \/ new_image
    \/ change_centering_method
    \/ activate_auto_levels

Spec == Init /\ [][Next]_vars

-----------------------------------------------------------------------------
(* The pointer events of the "move" draw mode alone, with the pointer's      *)
(* position and the region before the event recorded.                         *)

PointerLeave(st, o) ==
    /\ region' = st.region
    /\ center' = st.center
    /\ marker' = st.marker
    /\ outcome' = Outcome(st.err, IF running(st) THEN st.ret ELSE <<>>)
    /\ op' = o
    /\ prev' = region
    /\ canvas' = st.canvas
    /\ shown' = st.shown
    /\ logged' = st.logged
    /\ report' = st.report
    /\ UNCHANGED <<saved, applied, image, photutils, centering_method, region_type,
                   auto_levels>>

PointerDown ==
    \E p \in Pointers :
        PointerLeave(do_button_down(Entry, p[1], p[2], image),
                     Op("button_down", Fin(p[1]), Fin(p[2]), ""))

PointerDrag ==
    \E p \in Pointers :
        PointerLeave(do_button_drag(Entry, p[1], p[2], image),
                     Op("button_drag", Fin(p[1]), Fin(p[2]), ""))

PointerUp ==
    \E p \in Pointers :
        \E fit \in Fits(move_region(Entry, p[1], p[2], image, auto_levels),
                        centering_method) :
            PointerLeave(do_button_up(Entry, p[1], p[2], centering_method, fit, image,
                                      auto_levels),
                         Op("button_up", Fin(p[1]), Fin(p[2]), ""))

PointerNext == PointerDown \/ PointerDrag \/ PointerUp

SpecPointer == Init /\ [][PointerNext]_vars

\* the draw-event, with the drawn shape's kind and position recorded
DrawShape ==
    \E shape \in UserShapes \cup Lines :
        \E fit \in (IF shape.kind \in region_types /\ centering_method = "2D Gaussian"
                    THEN imported_centroid_2dg(cutout_shape(image, shape))
                    ELSE {Fit("none", NaN, NaN)}) :
            PointerLeave(draw_callback(drawn(Entry), shape, centering_method, fit,
                                       image, auto_levels),
                         Op("draw_callback", Fin(shape.x), Fin(shape.y), shape.kind))

DrawNext == PointerDown \/ PointerUp \/ DrawShape

SpecDraw == Init /\ [][DrawNext]_vars

-----------------------------------------------------------------------------
(* The Add button, after pointer events, image changes and the loss of the   *)
(* viewer's image.  image = 0: the viewer has no image.                       *)

\* a center field that was never assigned: the plugin's __init__ blanks the
\* labels but does not create _x_center, _y_center, _ra_center, _dec_center
unassigned(v) == v = NoCenter

\* the text of a report field: "" for None, else the number rounded to 3
\* decimals (x, y) or the angle in degrees with 6 decimals (ra, dec); half
\* pixels have at most one decimal
Blank == [k |-> "", h |-> 0]
rounded3(v) == IF v = None THEN Blank ELSE [k |-> "round3", h |-> v.h]
degrees6(v) == IF v = None THEN Blank ELSE [k |-> "deg6", h |-> v.h]

\* image.get("name", "")
image_name(img) == IF img = 1 THEN "first" ELSE "second"

\* the row add_to_report_callback builds (the channel, target, date and
\* location fields are labels that the events of the model do not change)
Row(img, c) ==
    [name |-> image_name(img), x |-> rounded3(c.x), y |-> rounded3(c.y),
     ra |-> degrees6(c.ra), dec |-> degrees6(c.dec)]

\* add_to_report_callback
add_to_report(st, img) ==
    IF st.region = NoRegion
    THEN st
    ELSE IF img = 0
         THEN st
         ELSE IF \E v \in {st.center.x, st.center.y, st.center.ra, st.center.dec} :
                     unassigned(v)
              THEN [st EXCEPT !.err = "AttributeError"]
              ELSE [st EXCEPT !.report = report_update(@,
                        <<Item(image_name(img), Row(img, st.center))>>)]

\* the Add button is pressed; a call of report.update goes to the history
add_to_report_callback ==
    LET after == add_to_report(Entry, image)
    IN  /\ Len(applied) < MaxOps
        /\ report' = after.report
        /\ outcome' = Outcome(after.err, <<>>)
        /\ op' = Op("add_to_report", Fin(0), Fin(0), "")
        /\ prev' = NoRegion
        /\ canvas' = after.canvas
        /\ shown' = after.shown
        /\ logged' = after.logged
        /\ UNCHANGED <<region, center, marker, saved>>
        /\ applied' = IF region = NoRegion \/ image = 0 \/ ~running(after)
                      THEN applied
                      ELSE Append(applied, <<Item(image_name(image), Row(image, center))>>)
        /\ UNCHANGED <<image, photutils, centering_method, region_type, auto_levels>>

\* pointer events, with an image in the viewer
AddDown == image # 0 /\ button_down
AddUp == image # 0 /\ button_up

\* a new image, with a region there (without one, see redo)
AddNewImage == region # NoRegion /\ new_image

\* the image is removed from the viewer, which then shows none
clear_image ==
    /\ image # 0
    /\ image' = 0
    /\ Leave(Entry, Op("clear_image", Fin(0), Fin(0), ""))
    /\ UNCHANGED <<photutils, centering_method, region_type, auto_levels>>

AddNext == AddDown \/ AddUp \/ AddNewImage \/ clear_image \/ add_to_report_callback

SpecAdd == Init /\ [][AddNext]_vars

-----------------------------------------------------------------------------
(* The plugin's recentering on a region, with the region before each step
   recorded *)

RecenterInit ==
    /\ image \in {1, 2}
    /\ \E shape \in DrawnShapes : region = CenteringRegion(shape, image)
    /\ photutils = TRUE
    /\ centering_method \in centering_methods(photutils)
    /\ region_type = "box"
    /\ auto_levels = TRUE
    /\ center = [x |-> NoCenter, y |-> NoCenter, value |-> NoCenter,
                 ra |-> NoCenter, dec |-> NoCenter]
    /\ marker = "initial"
    /\ op = Op("CenteringRegion", Fin(0), Fin(0), "")
    /\ outcome = Outcome("none", <<>>)
    /\ prev = NoRegion
    /\ canvas = Canvas(1)
    /\ shown = <<>>
    /\ logged = <<>>
    /\ report = EmptyReport
    /\ saved = "absent"
    /\ applied = <<>>

\* what a step of the plugin on its region leaves
RecenterLeave(st, o) ==
    /\ region' = st.region
    /\ center' = st.center
    /\ marker' = st.marker
    /\ outcome' = Outcome(st.err, <<>>)
    /\ op' = o
    /\ prev' = region
    /\ canvas' = st.canvas
    /\ shown' = st.shown
    /\ logged' = st.logged
    /\ report' = st.report
    /\ UNCHANGED <<saved, applied>>
    /\ UNCHANGED <<image, photutils, centering_method, region_type, auto_levels>>

\* Astrometry.move_region_peak(x, y)
RecenterMovePeak ==
    \E p \in PeakInputs :
        RecenterLeave(move_region_peak(Entry, p[1], p[2], image),
                      Op("move_region_peak", p[1], p[2], ""))

\* Astrometry.recenter_region; the operation records the fit centroid_2dg
\* gave, if it was called
RecenterRegion ==
    \E fit \in Fits(Entry, centering_method) :
        RecenterLeave(recenter_region(Entry, centering_method, fit, image),
                      Op("recenter_region", fit.x, fit.y, centering_method))

RecenterNext ==
    \/ RegionSetCenter
    \/ RecenterMovePeak
    \/ RecenterRegion

SpecRecenter == RecenterInit /\ [][RecenterNext]_vars

-----------------------------------------------------------------------------
(* The plugin with or without photutils, under the events that select a
   method and recenter *)

MethodInit ==
    /\ image = 1
    /\ region = NoRegion
    /\ photutils \in BOOLEAN
    /\ \E pref \in Preferences : centering_method = sync_preferences(pref, photutils)
    /\ region_type = "box"
    /\ auto_levels = TRUE
    /\ center = [x |-> NoCenter, y |-> NoCenter, value |-> NoCenter,
                 ra |-> NoCenter, dec |-> NoCenter]
    /\ marker = "initial"
    /\ op = Op("__init__", Fin(0), Fin(0), "")
    /\ outcome = Outcome("none", <<>>)
    /\ prev = NoRegion
    /\ canvas = Canvas(0)
    /\ shown = <<>>
    /\ logged = <<>>
    /\ report = EmptyReport
    /\ saved = "absent"
    /\ applied = <<>>

MethodNext ==
    \/ button_down
    \/ button_up
    \/ centroid_callback
    \/ new_image
    \/ change_centering_method

SpecMethod == MethodInit /\ [][MethodNext]_vars

-----------------------------------------------------------------------------
(* centroid as a function of a cutout and its origin: the cutouts are any   *)
(* masked arrays, not only the ones the two images give                     *)

\* the largest cutout, and the largest sample
MaxRows == 5
MaxCols == 4
MaxVal == 2

Entries(rows, cols) == (0 .. rows - 1) \X (0 .. cols - 1)

\* what an entry can be: masked, or a sample
Cells == {[m |-> TRUE, v |-> 0]} \cup {[m |-> FALSE, v |-> v] : v \in 0 .. MaxVal}

\* an all-zero array with the entries i and j set to the cells ci and cj
TwoCells(rows, cols, i, ci, j, cj) ==
    [rows |-> rows, cols |-> cols,
     val  |-> [e \in Entries(rows, cols) |->
                 IF e = j THEN cj.v ELSE IF e = i THEN ci.v ELSE 0],
     mask |-> [e \in Entries(rows, cols) |->
                 IF e = j THEN cj.m ELSE IF e = i THEN ci.m ELSE FALSE]]

\* an array with every entry masked
AllMasked(rows, cols) ==
    [rows |-> rows, cols |-> cols,
     val  |-> [e \in Entries(rows, cols) |-> 0],
     mask |-> [e \in Entries(rows, cols) |-> TRUE]]

Cutouts ==
    {TwoCells(rows, cols, i, ci, j, cj) :
        <<rows, cols, i, j>> \in
            {q \in (0 .. MaxRows) \X (0 .. MaxCols)
                    \X Entries(MaxRows, MaxCols) \X Entries(MaxRows, MaxCols) :
                /\ q[3] \in Entries(q[1], q[2])
                /\ q[4] \in Entries(q[1], q[2])},
        ci \in Cells, cj \in Cells}
      \cup {AllMasked(rows, cols) : rows \in 0 .. MaxRows, cols \in 0 .. MaxCols}

\* shapes whose rounded bounding boxes start at (10, 20) and (0, 2), and the
\* shape of the default region at pixel (100, 100)
OriginShapes ==
    {Shape("box", 23, 44, 3, 4), Shape("box", 1, 3, 0, 0),
     at_location(200, 200, 1).shape}

CentroidInit ==
    /\ image = 1
    /\ \E shape \in OriginShapes : \E data \in Cutouts :
          region = [CenteringRegion(shape, image) EXCEPT !.data = data]
    /\ photutils = TRUE
    /\ centering_method = "peak"
    /\ region_type = "box"
    /\ auto_levels = TRUE
    /\ center = [x |-> NoCenter, y |-> NoCenter, value |-> NoCenter,
                 ra |-> NoCenter, dec |-> NoCenter]
    /\ marker = "initial"
    /\ op = Op("CenteringRegion", Fin(0), Fin(0), "")
    /\ outcome = Outcome("none", <<>>)
    /\ prev = NoRegion
    /\ canvas = Canvas(1)
    /\ shown = <<>>
    /\ logged = <<>>
    /\ report = EmptyReport
    /\ saved = "absent"
    /\ applied = <<>>

CentroidPeak ==
    LET res == centroid(region, "peak", Fit("none", NaN, NaN))
    IN  /\ op.name # "centroid"
        /\ region' = res.r
        /\ op' = Op("centroid", Fin(0), Fin(0), "peak")
        /\ outcome' = Outcome(res.err, res.ret)
        /\ prev' = region
        /\ UNCHANGED <<image, plugin_vars, marker>>

CentroidNext == CentroidPeak

SpecCentroid == CentroidInit /\ [][CentroidNext]_vars

-----------------------------------------------------------------------------
(* Terms of the claims *)

OutOfBounds == "RegionImageBoundsError"

\* (x, y) is finite and x1 <= x <= x2, y1 <= y <= y2 for the shape's rounded
\* bounding box
Within(shape, x, y) ==
    LET b == get_llur(shape)
    IN  /\ x.k = "fin" /\ y.k = "fin"
        /\ 2 * b[1] <= x.h /\ x.h <= 2 * b[3]
        /\ 2 * b[2] <= y.h /\ y.h <= 2 * b[4]

\* where the peak marker of region r is
MarkerAt(r) == <<r.peak.x, r.peak.y>>

\* (x, y) brought to the nearest point of the shape's rounded bounding box
Clamped(shape, x, y) ==
    LET b == get_llur(shape)
    IN  <<Fin(Max(2 * b[1], Min(x.h, 2 * b[3]))),
          Fin(Max(2 * b[2], Min(y.h, 2 * b[4])))>>

\* the last operation was set_center_point(x, y) with (x, y) not in the box
RejectedCase ==
    /\ op.name = "set_center_point"
    /\ ~Within(prev.shape, op.x, op.y)

-----------------------------------------------------------------------------
(* C1 *)

\* C1 as stated: set_center_point with coordinates outside the rounded
\* bounding box raises RegionImageBoundsError and leaves the marker where it
\* was before the call, which is not the invalid point.
C1_AsStated ==
    RejectedCase =>
        /\ outcome.err = OutOfBounds
        /\ MarkerAt(region) = MarkerAt(prev)
        /\ MarkerAt(region) # <<op.x, op.y>>

\* C1, amended: set_center_point with coordinates outside the rounded
\* bounding box raises RegionImageBoundsError and moves the marker to the
\* centre of the (unchanged) shape, whatever its position before the call;
\* the marker is at the invalid point only if that point is the shape's
\* centre, which then lies outside the rounded bounding box itself.
C1_RejectedMarkerGoesToCenter ==
    RejectedCase =>
        /\ outcome.err = OutOfBounds
        /\ region.shape = prev.shape
        /\ MarkerAt(region) = get_center_pt(prev.shape)
        /\ (MarkerAt(region) = <<op.x, op.y>>
              => ~Within(prev.shape, Fin(prev.shape.x), Fin(prev.shape.y)))

\* a valid, visible marker away from the centre was sent to an invalid point
C1_Witness ==
    /\ RejectedCase
    /\ isfinite(op.x) /\ isfinite(op.y)
    /\ prev.peak.alpha = 1
    /\ Within(prev.shape, prev.peak.x, prev.peak.y)
    /\ MarkerAt(prev) # get_center_pt(prev.shape)
    /\ MarkerAt(region) = get_center_pt(prev.shape)

-----------------------------------------------------------------------------
(* C2 *)

\* C2: when set_center_point rejects its coordinates the marker is hidden
\* (alpha = 0) and put on the shape's current centre, the caller gets
\* RegionImageBoundsError, and the coordinates are not clamped: the marker is
\* not on the clamped point (unless that is the centre), and a call that
\* returns has put the marker on exactly the point it was given.
C2_RejectionHidesAndRecenters ==
    /\ RejectedCase =>
          /\ outcome.err = OutOfBounds
          /\ region.peak.alpha = 0
          /\ MarkerAt(region) = get_center_pt(region.shape)
          /\ (isfinite(op.x) /\ isfinite(op.y)
                /\ Clamped(prev.shape, op.x, op.y) # get_center_pt(region.shape)
                => MarkerAt(region) # Clamped(prev.shape, op.x, op.y))
    /\ (op.name = "set_center_point" /\ outcome.err = "none")
          => MarkerAt(region) = <<op.x, op.y>>

\* a visible marker was hidden by a rejected finite point whose clamped
\* position is not the centre
C2_Witness ==
    /\ RejectedCase
    /\ isfinite(op.x) /\ isfinite(op.y)
    /\ prev.peak.alpha = 1
    /\ region.peak.alpha = 0
    /\ outcome.err = OutOfBounds
    /\ Clamped(prev.shape, op.x, op.y) # get_center_pt(region.shape)

-----------------------------------------------------------------------------
(* C3 *)

\* C3: set_center_point with a NaN or infinite x or y raises
\* RegionImageBoundsError for every bounding box, and the marker is left on a
\* finite point.
C3_NonFiniteRejected ==
    (op.name = "set_center_point" /\ (~isfinite(op.x) \/ ~isfinite(op.y)))
        => /\ outcome.err = OutOfBounds
           /\ isfinite(region.peak.x) /\ isfinite(region.peak.y)

\* a NaN was rejected although the other coordinate lies in the box
C3_Witness ==
    /\ op.name = "set_center_point"
    /\ op.x = NaN
    /\ isfinite(op.y)
    /\ Within(prev.shape, Fin(prev.shape.x), op.y)
    /\ outcome.err = OutOfBounds

-----------------------------------------------------------------------------
(* C4 *)

\* C4: set_center_point with a finite point in the rounded bounding box, its
\* edges included, raises nothing and puts the marker, visible, exactly on
\* the point, whatever the marker was before.
C4_AcceptedExactly ==
    (op.name = "set_center_point" /\ Within(prev.shape, op.x, op.y))
        => /\ outcome.err = "none"
           /\ region.peak.alpha = 1
           /\ MarkerAt(region) = <<op.x, op.y>>
           /\ region.shape = prev.shape

\* a hidden marker was accepted on the upper-right corner of the box
C4_Witness ==
    /\ op.name = "set_center_point"
    /\ prev.peak.alpha = 0
    /\ isfinite(op.x) /\ isfinite(op.y)
    /\ op.x.h = 2 * get_llur(prev.shape)[3]
    /\ op.y.h = 2 * get_llur(prev.shape)[4]
    /\ region.peak.alpha = 1
    /\ MarkerAt(region) = <<op.x, op.y>>
    /\ MarkerAt(prev) # <<op.x, op.y>>

-----------------------------------------------------------------------------
(* C5 *)

\* C5 as stated: in every state the plugin's events reach, a visible peak
\* marker (alpha = 1) lies within the shape's current rounded bounding box.
C5_AsStated ==
    (region # NoRegion /\ region.peak.alpha = 1)
        => Within(region.shape, region.peak.x, region.peak.y)

\* C5, amended: in every state the plugin's events reach, a visible peak
\* marker lies within the shape's current rounded bounding box if the shape
\* has not been moved or edited since set_center_point last accepted the
\* marker's position.
C5_AcceptedMarkerWithin ==
    (region # NoRegion /\ region.peak.alpha = 1 /\ marker = "accepted")
        => Within(region.shape, region.peak.x, region.peak.y)

\* a pointer-up moved the region and left a visible marker, accepted away
\* from the shape's centre, on an edge of the box
C5_Witness ==
    /\ op.name = "button_up"
    /\ region # NoRegion
    /\ marker = "accepted"
    /\ region.peak.alpha = 1
    /\ MarkerAt(region) # get_center_pt(region.shape)
    /\ Within(region.shape, region.peak.x, region.peak.y)
    /\ region.peak.x.h = 2 * get_llur(region.shape)[1]

-----------------------------------------------------------------------------
(* C6 *)

\* C6: after every completed event (pointer down, drag and up, a drawn or
\* edited shape, a new image handled by redo, and the others, whether they
\* return or raise) the stored cutout of the active region is the
\* extraction for the shape's current rounded bounding box on the image now
\* in the viewer, so the next get_center_point_value or centroid reads data
\* for the shape's current position.
C6_CutoutIsCurrent ==
    region # NoRegion => region.data = cutout_shape(image, region.shape)

\* redo has run on a new image whose extraction differs from the one of the
\* image before, and the stored cutout is the new one
C6_Witness ==
    /\ op.name = "redo"
    /\ region # NoRegion
    /\ image > 1
    /\ cutout_shape(image, region.shape) # cutout_shape(image - 1, region.shape)
    /\ region.data = cutout_shape(image, region.shape)

-----------------------------------------------------------------------------
(* C7 *)

\* C7: get_center_point_value validates the marker again when it reads: with
\* a cutout that has entries and the marker outside the shape's rounded
\* bounding box (as after set_center_point accepted it and set_center then
\* moved the shape away), it raises RegionImageBoundsError and returns no
\* sample.
C7_ReadRevalidates ==
    (/\ op.name = "get_center_point_value"
     /\ size(prev.data) # 0
     /\ ~Within(prev.shape, prev.peak.x, prev.peak.y))
        => /\ outcome.err = OutOfBounds
           /\ outcome.ret = <<>>

\* the read of a visible marker that set_center_point accepted and that
\* set_center then left outside the box was refused
C7_Witness ==
    /\ op.name = "get_center_point_value"
    /\ marker = "moved"
    /\ prev.peak.alpha = 1
    /\ size(prev.data) # 0
    /\ ~Within(prev.shape, prev.peak.x, prev.peak.y)
    /\ outcome.err = OutOfBounds

-----------------------------------------------------------------------------
(* C8 *)

\* the entry (row, col) of a cutout as a float: nan where it is masked
SampleOf(data, row, col) ==
    IF data.mask[<<row, col>>] THEN <<NaN>> ELSE <<Fin(2 * data.val[<<row, col>>])>>

\* C8 as stated: get_center_point_value returns 0 on a cutout without
\* entries, wherever the marker is; otherwise, with the marker in the rounded
\* bounding box, it returns the cutout's sample at row round(y - y1), column
\* round(x - x1).
C8_AsStated ==
    op.name = "get_center_point_value" =>
        /\ size(prev.data) = 0
              => outcome.err = "none" /\ outcome.ret = <<Fin(0)>>
        /\ (size(prev.data) # 0 /\ Within(prev.shape, prev.peak.x, prev.peak.y))
              => LET b   == get_llur(prev.shape)
                     row == round(prev.peak.y.h - 2 * b[2])
                     col == round(prev.peak.x.h - 2 * b[1])
                 IN  /\ outcome.err = "none"
                     /\ row < prev.data.rows
                     /\ col < prev.data.cols
                     /\ outcome.ret = SampleOf(prev.data, row, col)

-----------------------------------------------------------------------------
(* C9 *)

\* C9: centroid(method) changes nothing, for the three methods and for an
\* unknown one: the marker's position and visibility, the shape and the
\* stored cutout are what they were before the call.
C9_CentroidIsPure ==
    op.name = "centroid" => region = prev

\* the peak method found a point that is not the marker's, and returned it
C9_Witness ==
    /\ op.name = "centroid"
    /\ op.m = "peak"
    /\ outcome.err = "none"
    /\ outcome.ret # MarkerAt(region)
    /\ region.peak.alpha = 1

-----------------------------------------------------------------------------
(* C10 *)

\* entry i comes no later than entry j in row-major (y, then x) order
RowMajorLe(i, j) == i[1] < j[1] \/ (i[1] = j[1] /\ i[2] <= j[2])

\* i is the first, in row-major order, of the greatest unmasked entries
IsFirstPeak(data, i) ==
    /\ ~data.mask[i]
    /\ \A j \in Entries(data.rows, data.cols) :
          ~data.mask[j] =>
              /\ data.val[j] <= data.val[i]
              /\ data.val[j] = data.val[i] => RowMajorLe(i, j)

\* centroid("peak") returned the origin (x1, y1) of the rounded bounding box
\* plus the (column, row) of the first greatest unmasked entry, a point of
\* [x1, x1 + width) x [y1, y1 + height)
ReturnsFirstPeak ==
    LET b == get_llur(prev.shape)
    IN  /\ outcome.err = "none"
        /\ \E i \in Entries(prev.data.rows, prev.data.cols) :
              /\ IsFirstPeak(prev.data, i)
              /\ outcome.ret = <<Fin(2 * (b[1] + i[2])), Fin(2 * (b[2] + i[1]))>>
        /\ Len(outcome.ret) = 2
        /\ 2 * b[1] <= outcome.ret[1].h
        /\ outcome.ret[1].h < 2 * (b[1] + prev.data.cols)
        /\ 2 * b[2] <= outcome.ret[2].h
        /\ outcome.ret[2].h < 2 * (b[2] + prev.data.rows)

\* C10 as stated: for every cutout, centroid("peak") returns the origin plus
\* the (column, row) of the first greatest unmasked sample, within the cutout.
C10_AsStated ==
    (op.name = "centroid" /\ op.m = "peak") => ReturnsFirstPeak

\* C10, amended: that holds for every cutout with an unmasked entry; for a
\* cutout with entries that are all masked centroid("peak") returns the origin
\* itself, and for a cutout without entries it raises ValueError and returns
\* no point.
C10_PeakOfUnmasked ==
    (op.name = "centroid" /\ op.m = "peak") =>
        LET b == get_llur(prev.shape)
            E == Entries(prev.data.rows, prev.data.cols)
        IN  /\ region = prev
            /\ (\E i \in E : ~prev.data.mask[i]) => ReturnsFirstPeak
            /\ (E # {} /\ \A i \in E : prev.data.mask[i])
                  => /\ outcome.err = "none"
                     /\ outcome.ret = <<Fin(2 * b[1]), Fin(2 * b[2])>>
            /\ E = {} => outcome.err = "ValueError" /\ outcome.ret = <<>>

\* the single greatest sample at column 3, row 4 of a cutout with origin
\* (10, 20) was reported at (13, 24)
C10_Witness ==
    /\ op.name = "centroid" /\ op.m = "peak"
    /\ get_llur(prev.shape)[1] = 10 /\ get_llur(prev.shape)[2] = 20
    /\ prev.data.rows > 4 /\ prev.data.cols > 3
    /\ \A i \in Entries(prev.data.rows, prev.data.cols) :
          i # <<4, 3>> =>
              ~prev.data.mask[i] /\ prev.data.val[i] < prev.data.val[<<4, 3>>]
    /\ outcome.ret = <<Fin(2 * 13), Fin(2 * 24)>>

-----------------------------------------------------------------------------
(* C11 *)

\* C11: centroid("none") raises nothing, changes nothing and returns the
\* region's current center point, the position of the peak marker
\* (get_center_point); a further call in the state it leaves returns the
\* same value again, so any number of calls without a move in between do.
C11_NoneReturnsCenterPoint ==
    (op.name = "centroid" /\ op.m = "none") =>
        LET again == centroid(region, "none", Fit("none", NaN, NaN))
        IN  /\ outcome.err = "none"
            /\ outcome.ret = MarkerAt(prev)
            /\ region = prev
            /\ again.err = "none"
            /\ again.ret = outcome.ret
            /\ again.r = region

\* centroid("none") returned the position of a marker that set_center_point
\* had accepted away from the centre of the shape
C11_Witness ==
    /\ op.name = "centroid" /\ op.m = "none"
    /\ marker = "accepted"
    /\ MarkerAt(prev) # get_center_pt(prev.shape)
    /\ outcome.ret = MarkerAt(region)

-----------------------------------------------------------------------------
(* C12 *)

\* the only entry of the array that is not zero is i, and nothing is masked
SingleBright(data, i) ==
    /\ i \in Entries(data.rows, data.cols)
    /\ \A j \in Entries(data.rows, data.cols) :
          ~data.mask[j] /\ (data.val[j] > 0) = (j = i)

\* centroid("peak") ran on the default region made at pixel (100, 100)
DefaultAt100 ==
    /\ op.name = "centroid" /\ op.m = "peak"
    /\ prev.shape = at_location(200, 200, image).shape

\* C12 as stated: the default 7 x 7 box made at pixel (100, 100) has the
\* rounded bounding box (97, 97, 104, 104), and the peak of a cutout whose
\* single bright pixel is at local offset (2, 1) is (99, 98).
C12_AsStated ==
    DefaultAt100 =>
        /\ get_llur(prev.shape) = <<97, 97, 104, 104>>
        /\ SingleBright(prev.data, <<1, 2>>) => outcome.ret = <<Fin(2 * 99), Fin(2 * 98)>>

\* C12, amended: the rounded bounding box is (97, 97, 103, 103), seven pixels
\* from 97 to 103 on each axis; the peak is (99, 98) as stated.
C12_DefaultBoxAt100 ==
    DefaultAt100 =>
        /\ get_llur(prev.shape) = <<97, 97, 103, 103>>
        /\ SingleBright(prev.data, <<1, 2>>) => outcome.ret = <<Fin(2 * 99), Fin(2 * 98)>>

\* the peak of a cutout with its single bright pixel at column 2, row 1 was
\* found for the default region at (100, 100)
C12_Witness ==
    /\ DefaultAt100
    /\ SingleBright(prev.data, <<1, 2>>)
    /\ outcome.err = "none"
    /\ outcome.ret = <<Fin(2 * 99), Fin(2 * 98)>>

-----------------------------------------------------------------------------
(* C13 *)

\* recenter_region ran with the 2D Gaussian method and the fit did not
\* succeed: centroid_2dg raised, or gave no finite position
FitFailed ==
    /\ op.name = "recenter_region"
    /\ op.m = "2D Gaussian"
    /\ (~isfinite(op.x) \/ ~isfinite(op.y))

\* C13 as stated: when the 2D Gaussian fit cannot succeed, recentering
\* leaves the peak marker where it was, and as visible as it was.
C13_AsStated ==
    FitFailed =>
        /\ region.shape = prev.shape
        /\ MarkerAt(region) = MarkerAt(prev)
        /\ region.peak.alpha = prev.peak.alpha

-----------------------------------------------------------------------------
(* C14 *)

\* C14: centroid with a method string other than "none", "peak" and
\* "2D Gaussian" raises RuntimeError, returns no position and changes
\* nothing in the region.
C14_UnknownMethodIsFatal ==
    (op.name = "centroid" /\ op.m \notin {"none", "peak", "2D Gaussian"})
        => /\ outcome.err = "RuntimeError"
           /\ outcome.ret = <<>>
           /\ region = prev

\* centroid was called with "Peak", which differs from a registered method
\* only in case, on a region with a valid marker and a cutout with entries
C14_Witness ==
    /\ op.name = "centroid"
    /\ op.m = "Peak"
    /\ marker = "accepted"
    /\ size(prev.data) # 0
    /\ outcome.err = "RuntimeError"

-----------------------------------------------------------------------------
(* C15 *)

\* C15: whatever the stored preference and the method selections, the method
\* recenter_region passes to centroid (the text of the combobox) is one of
\* the offered methods; without photutils these are "none" and "peak", and
\* neither an unknown method (RuntimeError) nor a call of the missing
\* centroid_2dg (TypeError) ever comes out of a recentering.
C15_OfferedMethodOnly ==
    /\ centering_method \in centering_methods(photutils)
    /\ centering_methods(photutils) \subseteq {"none", "peak", "2D Gaussian"}
    /\ ~photutils => /\ centering_methods(photutils) = {"none", "peak"}
                     /\ centering_method # "2D Gaussian"
    /\ outcome.err \notin {"RuntimeError", "TypeError"}

\* without photutils, a pointer-up has recentered the region
C15_Witness ==
    /\ ~photutils
    /\ op.name = "button_up"
    /\ region # NoRegion
    /\ marker = "accepted"
    /\ outcome.err = "none"

-----------------------------------------------------------------------------
(* C16 *)

\* C16: set_center(x, y) with a finite point, in the image or partly or
\* wholly off it, raises nothing, puts the centre of the shape on (x, y)
\* without changing its kind or size, extracts the cutout again for the new
\* position, and leaves the peak marker's position and alpha as they were.
C16_SetCenterUnchecked ==
    op.name = "set_center" =>
        /\ outcome.err = "none"
        /\ get_center_pt(region.shape) = <<op.x, op.y>>
        /\ region.shape.kind = prev.shape.kind
        /\ region.shape.xr = prev.shape.xr /\ region.shape.yr = prev.shape.yr
        /\ region.data = cutout_shape(image, region.shape)
        /\ MarkerAt(region) = MarkerAt(prev)
        /\ region.peak.alpha = prev.peak.alpha

\* set_center took a region with a visible, accepted marker from the image
\* to a place wholly off it, where the cutout has no entries
C16_Witness ==
    /\ op.name = "set_center"
    /\ marker = "moved"
    /\ region.peak.alpha = 1
    /\ size(prev.data) # 0
    /\ size(region.data) = 0
    /\ ~Within(region.shape, region.peak.x, region.peak.y)

-----------------------------------------------------------------------------
(* C17 *)

\* C17: after any sequence of pointer, draw, use-view-center and edit events
\* the plugin holds at most one region, and a handler that creates a region
\* while one exists discards that one first: there are never two regions (each
\* with its composite on the canvas) at once, not even inside a handler
C17_AtMostOneRegion ==
    /\ canvas.on <= 1
    /\ canvas.most <= 1
    /\ (canvas.before = 1 /\ canvas.made = 1) => region # NoRegion

\* a draw-event has made a region where there was one already
C17_Witness ==
    /\ op.name = "draw_callback"
    /\ canvas.before = 1
    /\ canvas.made = 1
    /\ region # NoRegion

-----------------------------------------------------------------------------
(* C18 *)

\* C18: after every completed event the canvas holds no composite but that of
\* the active region: one if there is a region, none if there is not
C18_NoDanglingComposite ==
    canvas.on = (IF region = NoRegion THEN 0 ELSE 1)

\* use-view-center has dropped the region there was and has put a new one at
\* the pan position: one composite was on the canvas before, and one is now
C18_Witness ==
    /\ op.name = "use_view_center"
    /\ canvas.before = 1
    /\ canvas.made = 1
    /\ canvas.on = 1
    /\ region # NoRegion

-----------------------------------------------------------------------------
(* C19 *)

\* C19 as stated: when the view changes image, redo destroys the active region
\* and removes its composite from the canvas
C19_AsStated ==
    op.name = "redo" => (region = NoRegion /\ canvas.on = 0)

\* C19: when the view changes image, redo keeps the active region: it makes
\* no new one, the region's composite stays on the canvas, and its cutout is
\* taken again, from the new image
C19_RedoKeepsRegion ==
    (op.name = "redo" /\ canvas.before = 1) =>
        /\ region # NoRegion
        /\ canvas.on = 1
        /\ canvas.made = 0
        /\ region.data = cutout_shape(image, region.shape)

\* redo has run for the second image with a region that has data there
C19_Witness ==
    /\ op.name = "redo"
    /\ canvas.before = 1
    /\ image = 2
    /\ region # NoRegion
    /\ size(region.data) > 0
    /\ region.data # cutout_shape(1, region.shape)

-----------------------------------------------------------------------------
(* C20 *)

\* the last operation was move_region_peak(x, y) with a point set_center_point
\* rejects
PeakRejectedCase ==
    /\ op.name = "move_region_peak"
    /\ invalid_coordinates(prev.shape, op.x, op.y)

\* C20: when set_center_point rejects the point of move_region_peak, the
\* marker is hidden, center x, y, value, RA and Dec are cleared, one message
\* is shown and no exception leaves move_region_peak
C20_RejectionRecovered ==
    PeakRejectedCase =>
        /\ outcome.err = "none"
        /\ region.peak.alpha = 0
        /\ center = [x |-> None, y |-> None, value |-> None,
                     ra |-> None, dec |-> None]
        /\ shown = <<"RegionImageBoundsError">>

\* move_region_peak was given a finite point outside the box of a region
\* that had data and its marker shown
C20_Witness ==
    /\ PeakRejectedCase
    /\ op.x.k = "fin" /\ op.y.k = "fin"
    /\ prev.peak.alpha = 1
    /\ size(prev.data) > 0
    /\ center.x = None

-----------------------------------------------------------------------------
(* C21 *)

\* the last operation was move_region_peak(x, y) with a point that was
\* accepted and whose value was read, and for which there are no sky
\* coordinates
TransformFailedCase ==
    /\ op.name = "move_region_peak"
    /\ ~invalid_coordinates(prev.shape, op.x, op.y)
    /\ get_center_point_value(set_center_point(prev, op.x, op.y).r).err = "none"
    /\ ~pixtoradec_ok(image, op.x, op.y)

\* C21: when the sky transform fails after the point was accepted, center x,
\* y and value keep the accepted point and its sample, RA and Dec are blank,
\* one warning is logged and no exception leaves move_region_peak
C21_TransformFailureKeepsPixels ==
    TransformFailedCase =>
        /\ outcome.err = "none"
        /\ center.x = op.x
        /\ center.y = op.y
        /\ <<center.value>> = get_center_point_value(region).ret
        /\ center.value # None
        /\ center.ra = None
        /\ center.dec = None
        /\ logged = <<"Couldn't calculate sky coordinates">>
        /\ shown = <<>>
        /\ region.peak = Peak(op.x, op.y, 1)

\* the point is on an image that has no sky solution, in a region with data
C21_Witness ==
    /\ TransformFailedCase
    /\ ~Images[image].wcs
    /\ size(region.data) > 0
    /\ center.value.k = "fin"
    /\ center.ra = None

-----------------------------------------------------------------------------
(* C22 *)

\* the handlers that recenter the region
RecenteringHandlers ==
    {"draw_callback", "edit_callback", "button_up", "centroid_callback", "redo"}

\* C22 as stated: no failure of the centroid computation, of the value read
\* or of the cut levels leaves a handler that recenters an active region
C22_AsStated ==
    (op.name \in RecenteringHandlers /\ region # NoRegion) => outcome.err = "none"

-----------------------------------------------------------------------------
(* C23 *)

\* the mapping a history of update calls (and clear calls, <<>>) leaves: the
\* row of key k is the one of the last update that carries k, if no clear
\* came after it
RECURSIVE LastWrite(_, _)
LastWrite(h, k) ==
    IF h = <<>>
    THEN 0
    ELSE LET last == h[Len(h)]
             rows == {last[i].row : i \in {j \in 1 .. Len(last) : last[j].key = k}}
         IN  IF last = <<>>
             THEN 0
             ELSE IF rows # {}
                  THEN CHOOSE r \in rows : TRUE
                  ELSE LastWrite(SubSeq(h, 1, Len(h) - 1), k)

\* the row dict d has for key k, 0 if it has none
RowOf(d, k) ==
    LET at == {i \in 1 .. Len(d) : d[i].key = k}
    IN  IF at = {} THEN 0 ELSE d[CHOOSE i \in at : TRUE].row

\* no key is twice in dict d
Unique(d) == \A i, j \in 1 .. Len(d) : d[i].key = d[j].key => i = j

\* C23: keys are unique and the last write wins: after any update and clear
\* calls the table has, for every key, the row of the last update that
\* carried it since the last clear, and the tree view shows the same rows
C23_LastWriteWins ==
    /\ Unique(report.table)
    /\ \A k \in ReportKeys : RowOf(report.table, k) = LastWrite(applied, k)
    /\ keys(report.table) \subseteq ReportKeys
    /\ report.tree = report.table

\* a key was written twice with different rows, and another key once
C23_Witness ==
    /\ Len(applied) = 3
    /\ applied[1] = <<Item("a", 1)>>
    /\ applied[3] = <<Item("a", 2)>>
    /\ applied[2] = <<Item("b", 1)>>
    /\ report.table = <<Item("a", 2), Item("b", 1)>>

-----------------------------------------------------------------------------
(* C24 *)

\* the report after the calls of history h on a new report
RECURSIVE Replay(_)
Replay(h) ==
    IF h = <<>>
    THEN EmptyReport
    ELSE LET before == Replay(SubSeq(h, 1, Len(h) - 1))
             last   == h[Len(h)]
         IN  IF last = <<>> THEN report_clear(before) ELSE report_update(before, last)

\* how long the histories are that a history is compared with
MaxOther == 2

\* the histories of at most MaxOther update calls
Others == UNION {[1 .. n -> Results] : n \in 0 .. MaxOther}

\* history h ends with the same key-to-record mapping as the calls made
SameMapping(h) == \A k \in ReportKeys : LastWrite(h, k) = LastWrite(applied, k)

\* the keys of history h since its last clear, in the order in which they
\* were first inserted
RECURSIVE FirstInserted(_)
FirstInserted(h) ==
    IF h = <<>>
    THEN <<>>
    ELSE LET before == FirstInserted(SubSeq(h, 1, Len(h) - 1))
             last   == h[Len(h)]
             new(ks, k) == IF \E i \in 1 .. Len(ks) : ks[i] = k THEN ks ELSE Append(ks, k)
         IN  IF last = <<>>
             THEN <<>>
             ELSE IF Len(last) = 1
                  THEN new(before, last[1].key)
                  ELSE new(new(before, last[1].key), last[2].key)

\* C24 as stated: a history of updates that ends with the same mapping gives
\* the same rows in the same order, which is the order save exports
C24_AsStated ==
    \A h \in Others :
        SameMapping(h) => values(Replay(h).table) = values(report.table)

\* C24: a history of updates that ends with the same mapping gives the same
\* row for every key, and the rows are kept, and exported by save, in the
\* order in which their keys were first inserted
C24_SameRowsInInsertionOrder ==
    /\ \A h \in Others :
           SameMapping(h) =>
               \A k \in ReportKeys : RowOf(Replay(h).table, k) = RowOf(report.table, k)
    /\ [i \in 1 .. Len(report.table) |-> report.table[i].key] = FirstInserted(applied)
    /\ (op.name = "save" /\ outcome.err = "none") =>
           saved = [i \in 1 .. Len(FirstInserted(applied)) |->
                        LastWrite(applied, FirstInserted(applied)[i])]

\* key b was inserted before key a, key a was written again, and save has
\* exported the row of b first
C24_Witness ==
    /\ applied = << <<Item("b", 2)>>, <<Item("a", 2)>>, <<Item("a", 1)>> >>
    /\ op.name = "save"
    /\ outcome.err = "none"
    /\ saved = <<2, 1>>
    /\ values(Replay(<< <<Item("a", 1)>>, <<Item("b", 2)>> >>).table) = <<1, 2>>

-----------------------------------------------------------------------------
(* C25 *)

\* C25 as stated: save to a destination that can be written succeeds for
\* every report, the empty one included, and the file then holds exactly the
\* current rows
C25_AsStated ==
    (op.name = "save" /\ op.m = "writable") =>
        /\ outcome.err = "none"
        /\ saved = values(report.table)

-----------------------------------------------------------------------------
(* C26 *)

\* the shape of the region before the event, at the pointer
MovedToPointer == [prev.shape EXCEPT !.x = op.x.h, !.y = op.y.h]

\* the center fields as they are before any region was recentered
NothingMeasured ==
    center = [x |-> NoCenter, y |-> NoCenter, value |-> NoCenter,
              ra |-> NoCenter, dec |-> NoCenter]

-----------------------------------------------------------------------------
(* C27 *)

-----------------------------------------------------------------------------
(* C28 *)

\* the row the report has for the image in the viewer
RowOfImage == RowOf(report.table, image_name(image))

\* C28 as stated: Add with a region and an image writes one row, keyed by the
\* image's name, whose x, y, ra and dec are blank exactly when the center
\* field is undefined; without a region (no region was there before, and so
\* no row) it leaves the report as it is
C28_AsStated ==
    op.name = "add_to_report" =>
        /\ outcome.err = "none"
        /\ region = NoRegion => report.table = <<>>
        /\ (region # NoRegion /\ image # 0) =>
               /\ image_name(image) \in keys(report.table)
               /\ applied # <<>>
               /\ applied[Len(applied)] = <<Item(image_name(image), RowOfImage)>>
               /\ report.table = Replay(applied).table
               /\ (RowOfImage.x = Blank) = (center.x \in {None, NoCenter})
               /\ (RowOfImage.y = Blank) = (center.y \in {None, NoCenter})
               /\ (RowOfImage.ra = Blank) = (center.ra \in {None, NoCenter})
               /\ (RowOfImage.dec = Blank) = (center.dec \in {None, NoCenter})

-----------------------------------------------------------------------------
(* C29 *)

\* pixel (px, py) is a pixel of image img
OnImage(img, px, py) ==
    /\ 0 <= px /\ px < Images[img].wd
    /\ 0 <= py /\ py < Images[img].ht

\* C29 as stated: with the marker in the rounded bounding box, on a pixel of
\* the image, and a cutout that has entries, the entry that
\* get_center_point_value reads is in the cutout and is the image's pixel
\* under the marker (nan if the shape masks it), also where the cutout is
\* smaller than the bounding box
C29_AsStated ==
    LET px == round(prev.peak.x.h)
        py == round(prev.peak.y.h)
    IN  (/\ op.name = "get_center_point_value"
         /\ size(prev.data) > 0
         /\ Within(prev.shape, prev.peak.x, prev.peak.y)
         /\ OnImage(image, px, py))
            => /\ outcome.err = "none"
               /\ outcome.ret \in {<<NaN>>, <<Fin(2 * get_data_xy(image, px, py))>>}

-----------------------------------------------------------------------------
(* C30 *)

\* the events of the plugin that can come while there is no region
RegionlessEvents ==
    {"button_drag", "button_up", "centroid_callback", "edit_callback",
     "activate_auto_levels", "redo"}

\* C30 as stated: an event that comes while there is no region ends without
\* an error and leaves things as they are: there is still no region, nothing
\* is on the canvas, the center fields are as at the start and the report is
\* empty
C30_AsStated ==
    (op.name \in RegionlessEvents /\ canvas.before = 0) =>
        /\ outcome.err = "none"
        /\ region = NoRegion
        /\ canvas.on = 0
        /\ NothingMeasured
        /\ report = EmptyReport

-----------------------------------------------------------------------------
(* C31 *)

\* the label of a center field shows nothing: the field is None, or was
\* never assigned (the labels are blanked when the plugin is built)
ShowsNothing(v) == v \in {None, NoCenter}

\* the center labels show the marker's position if the marker is visible,
\* and nothing if it is hidden
DisplayFollowsMarker ==
    IF region.peak.alpha = 1
    THEN center.x = region.peak.x /\ center.y = region.peak.y
    ELSE ShowsNothing(center.x) /\ ShowsNothing(center.y)

\* C31 as stated: after every event that completed with a region there, the
\* displayed center follows the marker, also right after pointer-down has made
\* the region and after the region was replaced
C31_AsStated ==
    (region # NoRegion /\ outcome.err = "none") => DisplayFollowsMarker

\* C31: after every event with a region whose marker was placed by a
\* recentering (it is not the marker the constructor put on the shape's
\* centre), the displayed center follows the marker
C31_DisplayFollowsPlacedMarker ==
    (region # NoRegion /\ marker # "initial") => DisplayFollowsMarker

\* the region was recentered and then dragged away: the marker is visible
\* where it was accepted, and the labels show that position
C31_Witness ==
    /\ op.name = "button_drag"
    /\ region # NoRegion
    /\ marker = "moved"
    /\ region.peak.alpha = 1
    /\ center.x = region.peak.x
    /\ ~Within(region.shape, region.peak.x, region.peak.y)

-----------------------------------------------------------------------------
(* C32 *)

\* pointer-up came to a region that was there, and the cutout at the new
\* position has pixels
PointerUpOnCutout ==
    /\ op.name = "button_up"
    /\ prev # NoRegion
    /\ size(region.data) > 0

\* Bound+Refined: the event completed, and the peak marker is visible and
\* within the rounded bounding box of the shape where it now is
BoundRefined ==
    /\ outcome.err = "none"
    /\ region.peak.alpha = 1
    /\ Within(region.shape, region.peak.x, region.peak.y)

\* C32 as stated: every pointer-up on a region with a non-empty cutout ends
\* Bound+Refined, whichever centering method is selected
C32_AsStated == PointerUpOnCutout => BoundRefined

\* C32: every pointer-up on a region with a non-empty cutout ends
\* Bound+Refined when the centering method is "peak"; with "none" and
\* "2D Gaussian" the marker may end hidden
C32_PeakEndsRefined ==
    (PointerUpOnCutout /\ centering_method = "peak") => BoundRefined

\* pointer-up has moved a region somewhere else and the peak of the cutout
\* there carries the visible marker
C32_Witness ==
    /\ PointerUpOnCutout
    /\ centering_method = "peak"
    /\ prev.shape # region.shape
    /\ BoundRefined
    /\ MarkerAt(region) # MarkerAt(prev)

====
